---- MODULE Spec2Model ----
(***************************************************************************)
(* Model of modify_icon.py: an LVGL icon C-array post-processor.           *)
(*                                                                         *)
(* Numbers.  The script computes with Python floats.  The model keeps the  *)
(* same quantities exactly, in integers:                                   *)
(*   - the radius is held doubled (radius2 = 2 * radius), so every corner  *)
(*     centre and every pixel coordinate is an integer in half-pixel units *)
(*     and dist = sqrt(sq) / 2 for an integer sq;                          *)
(*   - a value returned by distance_to_corner is the pair [sq, off]        *)
(*     standing for (sqrt(sq) - off) / 3, i.e. (dist - (radius-1.5)) / 1.5 *)
(*     with numerator and denominator doubled;                             *)
(*   - max_shadow is a fraction <<p, q>> and a shadow factor is a          *)
(*     fraction [num, den].                                                *)
(* int(...) of a non-negative product is the floor of the exact value.     *)
(***************************************************************************)
EXTENDS Integers, Naturals, Sequences, FiniteSets, TLC

\* ------------------------------------------------------------------ bounds
MaxWidth == 3
MaxHeight == 4
MaxRadius2 == 10
MaxFileWidth == 2
MaxFileHeight == 2

\* max_shadow values <<p, q>> = p/q, all in [0, 1]; <<1, 5>> is the default
Shadows == {<<0, 1>>, <<1, 5>>, <<1, 2>>, <<1, 1>>}

\* byte patterns <<base, step>>: byte i (0-based) is (base + step*i) % 256
Patterns == {<<255, 0>>, <<200, 0>>, <<1, 0>>, <<3, 37>>, <<250, 101>>}

ByteAt(pat, i) == (pat[1] + pat[2] * i) % 256

Buffer(pat, n) == [i \in 1..n |-> ByteAt(pat, i - 1)]

NoPixels == <<-1>>
NoText == <<"None">>

\* --------------------------------------------------- geometry: corner-distance
\* the four corner centres, doubled
corners(width, height, radius2) ==
    << <<radius2, radius2>>,
       <<2 * width - radius2 - 2, radius2>>,
       <<radius2, 2 * height - radius2 - 2>>,
       <<2 * width - radius2 - 2, 2 * height - radius2 - 2>> >>

in_corner_x(x, width, radius2, cx) ==
    \/ (2 * x < radius2 /\ cx = radius2)
    \/ (2 * x > 2 * width - radius2 - 2 /\ cx = 2 * width - radius2 - 2)

in_corner_y(y, height, radius2, cy) ==
    \/ (2 * y < radius2 /\ cy = radius2)
    \/ (2 * y > 2 * height - radius2 - 2 /\ cy = 2 * height - radius2 - 2)

\* (2 * dist)^2 for the corner centre <<cx, cy>>
DistSq(x, y, c) == (2 * x - c[1]) * (2 * x - c[1]) + (2 * y - c[2]) * (2 * y - c[2])

\* return values: [sq, off] stands for (sqrt(sq) - off) / 3
One == [sq |-> 9, off |-> 0]
Zero == [sq |-> 0, off |-> 0]

AntiAliasMutB(sq, radius2) == [sq |-> sq, off |-> radius2 - 2]

\* the anti-aliasing return value (dist - (radius - 1.5)) / 1.5
AntiAlias(sq, radius2) == [sq |-> sq, off |-> radius2 - 3]

RECURSIVE CornerScan(_, _, _, _, _, _)
CornerScan(x, y, width, height, radius2, k) ==
    IF k > 4 THEN Zero
    ELSE LET c == corners(width, height, radius2)[k]
             sq == DistSq(x, y, c)
         IN IF in_corner_x(x, width, radius2, c[1]) /\ in_corner_y(y, height, radius2, c[2])
            THEN IF sq > radius2 * radius2
                 THEN One
                 ELSE IF radius2 - 3 < 0 \/ sq > (radius2 - 3) * (radius2 - 3)
                      THEN AntiAlias(sq, radius2)
                      ELSE CornerScan(x, y, width, height, radius2, k + 1)
            ELSE CornerScan(x, y, width, height, radius2, k + 1)

distance_to_corner(x, y, width, height, radius2) ==
    CornerScan(x, y, width, height, radius2, 1)

\* comparisons of a returned value v with 1.0 and with 0
GE1(v) == v.off + 3 <= 0 \/ v.sq >= (v.off + 3) * (v.off + 3)
GT0(v) == v.off < 0 \/ v.sq > v.off * v.off

\* int(a * (1.0 - v)) for 0 < v < 1
FadeHolds(a, v, n) ==
    /\ a * (v.off + 3) - 3 * n >= 0
    /\ a * a * v.sq <= (a * (v.off + 3) - 3 * n) * (a * (v.off + 3) - 3 * n)

FadeAlpha(a, v) ==
    CHOOSE n \in 0..a : FadeHolds(a, v, n) /\ ~FadeHolds(a, v, n + 1)

\* ----------------------------------------------------- geometry: shadow-factor
\* int(height * 0.7)
shadow_start(height) == (7 * height) \div 10

get_shadow_factor_MutC6(y, height, max_darkening) ==
    IF y < shadow_start(height) THEN [num |-> 1, den |-> 1]
    ELSE [num |-> max_darkening[2] * (height - shadow_start(height))
                  - max_darkening[1] * (y + 1 - shadow_start(height)),
          den |-> max_darkening[2] * (height - shadow_start(height))]

get_shadow_factor_MutC9(y, height, max_darkening) ==
    IF y < shadow_start(height) THEN [num |-> 1, den |-> 1]
    ELSE [num |-> max_darkening[2] * (height - shadow_start(height))
                  - max_darkening[1] * (height - y),
          den |-> max_darkening[2] * (height - shadow_start(height))]

get_shadow_factor(y, height, max_darkening) ==
    IF y < shadow_start(height) THEN [num |-> 1, den |-> 1]
    ELSE [num |-> max_darkening[2] * (height - shadow_start(height))
                  - max_darkening[1] * (y - shadow_start(height)),
          den |-> max_darkening[2] * (height - shadow_start(height))]

DarkenMut(c, sf) == (c * sf.den) \div sf.num

\* int(c * shadow_factor)
Darken(c, sf) == (c * sf.num) \div sf.den

\* ------------------------------------------------------------ pixel transformer
ExpectedBytesMut(width, height) == width * height * 4 + 4

ExpectedBytes(width, height) == width * height * 4

ModPixelMut(px, x, y, width, height, radius2, max_shadow) ==
    LET corner_dist == distance_to_corner(x, y, width, height, radius2)
        shadow_factor == get_shadow_factor(y, height, max_shadow)
    IN IF GE1(corner_dist) THEN <<0, 0, 0, 0>>
       ELSE IF GT0(corner_dist)
            THEN <<Darken(px[1], shadow_factor), Darken(px[2], shadow_factor),
                   Darken(px[3], shadow_factor), FadeAlpha(px[4], corner_dist)>>
            ELSE IF shadow_factor.num < shadow_factor.den
                 THEN <<Darken(px[1], shadow_factor), Darken(px[2], shadow_factor),
                        Darken(px[3], shadow_factor), px[4]>>
                 ELSE px

\* one iteration of the loop body: px = <<b, g, r, a>> in, the four bytes out
ModPixel(px, x, y, width, height, radius2, max_shadow) ==
    LET corner_dist == distance_to_corner(x, y, width, height, radius2)
        shadow_factor == get_shadow_factor(y, height, max_shadow)
    IN IF GE1(corner_dist) THEN <<0, 0, 0, 0>>
       ELSE IF GT0(corner_dist)
            THEN <<px[1], px[2], px[3], FadeAlpha(px[4], corner_dist)>>
            ELSE IF shadow_factor.num < shadow_factor.den
                 THEN <<Darken(px[1], shadow_factor), Darken(px[2], shadow_factor),
                        Darken(px[3], shadow_factor), px[4]>>
                 ELSE px

\* the pixel at (x, y) of a buffer, and the coordinates of byte index i (1-based)
PixelAt(buf, x, y, width) ==
    LET idx == (y * width + x) * 4
    IN <<buf[idx + 1], buf[idx + 2], buf[idx + 3], buf[idx + 4]>>

XOf(i, width) == ((i - 1) \div 4) % width
YOf(i, width) == ((i - 1) \div 4) \div width

\* ret is the returned list; arg is the caller's list after the call
\* (the loop works on the copy made by list(pixels))
apply_modifications(pxs, width, height, radius2, max_shadow) ==
    IF Len(pxs) # ExpectedBytes(width, height)
    THEN [err |-> "ValueError: pixel count", ret |-> NoPixels, arg |-> pxs]
    ELSE [err |-> "", arg |-> pxs,
          ret |-> [i \in 1..Len(pxs) |->
                     ModPixel(PixelAt(pxs, XOf(i, width), YOf(i, width), width),
                              XOf(i, width), YOf(i, width),
                              width, height, radius2, max_shadow)[((i - 1) % 4) + 1]]]

\* ------------------------------------------------------------------- file text
\* A text is a sequence of one-character strings.
WhiteSpace == {" ", "\n", "\t"}

LowerHex == <<"0", "1", "2", "3", "4", "5", "6", "7", "8", "9", "a", "b", "c", "d", "e", "f">>
UpperHex == <<"0", "1", "2", "3", "4", "5", "6", "7", "8", "9", "A", "B", "C", "D", "E", "F">>

HexChars == {LowerHex[k] : k \in 1..16} \cup {UpperHex[k] : k \in 1..16}

\* [a-zA-Z0-9_]
IdentChars ==
    {"a", "b", "c", "d", "e", "f", "g", "h", "i", "j", "k", "l", "m",
     "n", "o", "p", "q", "r", "s", "t", "u", "v", "w", "x", "y", "z",
     "A", "B", "C", "D", "E", "F", "G", "H", "I", "J", "K", "L", "M",
     "N", "O", "P", "Q", "R", "S", "T", "U", "V", "W", "X", "Y", "Z",
     "0", "1", "2", "3", "4", "5", "6", "7", "8", "9", "_"}

KwUint8 == <<"u", "i", "n", "t", "8", "_", "t">>

\* text has the literal lit at position pos
LitAt(text, pos, lit) ==
    /\ pos + Len(lit) - 1 <= Len(text)
    /\ \A k \in 1..Len(lit) : text[pos + k - 1] = lit[k]

\* first position >= pos whose character is not in class (Len + 1 if none)
SkipClass(text, pos, class) ==
    CHOOSE p \in pos..(Len(text) + 1) :
       /\ p = Len(text) + 1 \/ text[p] \notin class
       /\ \A j \in pos..(p - 1) : text[j] \in class

\* first position >= pos holding the character ch (Len + 1 if none)
SkipUntil(text, pos, ch) ==
    CHOOSE p \in pos..(Len(text) + 1) :
       /\ p = Len(text) + 1 \/ text[p] = ch
       /\ \A j \in pos..(p - 1) : text[j] # ch

NoMatch == [ok |-> FALSE, start |-> 0, nameFrom |-> 0, nameTo |-> 0, open |-> 0, close |-> 0]

\* uint8_t\s+([a-zA-Z0-9_]+)\[\]\s*=\s*\{([^}]+)\} anchored at pos.
\* Each repeated class is disjoint from what follows it, so the greedy match
\* is the only candidate.
MatchAt(text, pos) ==
    IF ~LitAt(text, pos, KwUint8) THEN NoMatch
    ELSE LET p1 == pos + Len(KwUint8)
             p2 == SkipClass(text, p1, WhiteSpace)
             p3 == SkipClass(text, p2, IdentChars)
             p4 == SkipClass(text, p3 + 2, WhiteSpace)
             p5 == SkipClass(text, p4 + 1, WhiteSpace)
             p6 == SkipUntil(text, p5 + 1, "}")
         IN IF /\ p2 > p1
               /\ p3 > p2
               /\ LitAt(text, p3, <<"[", "]">>)
               /\ LitAt(text, p4, <<"=">>)
               /\ LitAt(text, p5, <<"{">>)
               /\ p6 > p5 + 1
               /\ p6 <= Len(text)
            THEN [ok |-> TRUE, start |-> pos, nameFrom |-> p2, nameTo |-> p3 - 1,
                  open |-> p5, close |-> p6]
            ELSE NoMatch

\* re.search: the leftmost match starting at or after pos
Search(text, pos) ==
    IF \E i \in pos..Len(text) : MatchAt(text, i).ok
    THEN MatchAt(text, CHOOSE i \in pos..Len(text) :
                          /\ MatchAt(text, i).ok
                          /\ \A j \in pos..(i - 1) : ~MatchAt(text, j).ok)
    ELSE NoMatch

HexVal(c) == CHOOSE v \in 0..15 : LowerHex[v + 1] = c \/ UpperHex[v + 1] = c

\* re.findall(r'0x[0-9a-fA-F]{2}', data_str) followed by int(h, 16)
HexLitAt(text, pos) ==
    /\ pos + 3 <= Len(text)
    /\ text[pos] = "0"
    /\ text[pos + 1] = "x"
    /\ text[pos + 2] \in HexChars
    /\ text[pos + 3] \in HexChars

RECURSIVE FindHex(_, _)
FindHex(text, pos) ==
    IF \E i \in pos..Len(text) : HexLitAt(text, i)
    THEN LET p == CHOOSE i \in pos..Len(text) :
                     HexLitAt(text, i) /\ \A j \in pos..(i - 1) : ~HexLitAt(text, j)
         IN <<16 * HexVal(text[p + 2]) + HexVal(text[p + 3])>> \o FindHex(text, p + 4)
    ELSE <<>>

parse_c_file(content) ==
    LET m == Search(content, 1)
    IN IF ~m.ok
       THEN [err |-> "ValueError: no array", pixels |-> NoPixels, content |-> content,
             var_name |-> NoText]
       ELSE [err |-> "",
             pixels |-> FindHex(SubSeq(content, m.open + 1, m.close - 1), 1),
             content |-> content,
             var_name |-> SubSeq(content, m.nameFrom, m.nameTo)]

\* ------------------------------------------------------------------- serializer
\* format(b, 'x'): lowercase hex digits without padding
RECURSIVE HexDigits(_)
HexDigits(b) ==
    IF b < 16 THEN <<LowerHex[b + 1]>>
    ELSE HexDigits(b \div 16) \o <<LowerHex[(b % 16) + 1]>>

HexByteMut(b) ==
    <<"0", "x">> \o (IF b < 16 THEN <<LowerHex[b + 1], "0">>
                     ELSE <<LowerHex[(b % 16) + 1]>> \o HexDigits(b \div 16))

\* f"0x{b:02x}"
HexByte(b) ==
    <<"0", "x">> \o (IF b < 16 THEN <<"0">> ELSE <<>>) \o HexDigits(b)

\* f"0x{b:02x}, 0x{g:02x}, 0x{r:02x}, 0x{a:02x}"
PixelText(pxs, i) ==
    HexByte(pxs[i + 1]) \o <<",", " ">> \o HexByte(pxs[i + 2]) \o <<",", " ">>
    \o HexByte(pxs[i + 3]) \o <<",", " ">> \o HexByte(pxs[i + 4])

\* sep.join(parts)
RECURSIVE Join(_, _)
Join(parts, sep) ==
    IF Len(parts) = 0 THEN <<>>
    ELSE IF Len(parts) = 1 THEN parts[1]
         ELSE parts[1] \o sep \o Join(Tail(parts), sep)

\* "  " + ", ".join(line_pixels) + ","
LineText(line_pixels) == <<" ", " ">> \o Join(line_pixels, <<",", " ">>) \o <<",">>

\* the loop over range(0, len(pixels), 4) and the final flush; i is 0-based
RECURSIVE FormatLoop(_, _, _, _, _)
FormatLoop(pxs, width, i, lines, line_pixels) ==
    IF i >= Len(pxs)
    THEN IF Len(line_pixels) > 0 THEN Append(lines, LineText(line_pixels)) ELSE lines
    ELSE IF i > 0 /\ (i \div 4) % width = 0
         THEN FormatLoop(pxs, width, i + 4, Append(lines, LineText(line_pixels)),
                         <<PixelText(pxs, i)>>)
         ELSE FormatLoop(pxs, width, i + 4, lines, Append(line_pixels, PixelText(pxs, i)))

array_content(pxs, width) == Join(FormatLoop(pxs, width, 0, <<>>, <<>>), <<"\n">>)

\* re.sub without a count: every non-overlapping match, left to right, gets
\* group 1, a newline, the new body, a newline and the closing brace
RECURSIVE SubAll(_, _, _)
SubAll(text, pos, body) ==
    LET m == Search(text, pos)
    IN IF m.ok
       THEN SubSeq(text, pos, m.open) \o <<"\n">> \o body \o <<"\n">> \o <<"}">>
            \o SubAll(text, m.close + 1, body)
       ELSE SubSeq(text, pos, Len(text))

format_output(pxs, original, width) ==
    IF Len(pxs) % 4 # 0
    THEN [err |-> "ValueError: unpack", ret |-> NoText]
    ELSE [err |-> "", ret |-> SubAll(original, 1, array_content(pxs, width))]

\* ------------------------------------------------------------------------ state
VARIABLES
    args,              \* parsed command line
    fs,                \* the files: path -> text, NoText when the file does not exist
    pc,                \* position in main (or in a direct call of one function)
    pixels,            \* bytes read by parse_c_file / passed to apply_modifications
    original_content,  \* text read by parse_c_file
    var_name,          \* identifier found by parse_c_file
    modified_pixels,   \* result of apply_modifications
    new_content,       \* result of format_output
    second_content,    \* result of format_output applied to its own output
    writes,            \* the paths written so far, in order
    error,             \* message of the exception caught at line 199 (or raised to the caller)
    exit_status        \* -1 while running, then the process exit status

vars == <<args, fs, pc, pixels, original_content, var_name, modified_pixels,
          new_content, second_content, writes, error, exit_status>>

InputPath == "icon.c"
OtherPath == "out.c"
BakPath == "icon.c.bak"
Paths == {InputPath, OtherPath, BakPath}

\* args.input_file + ".bak"
bak_file(input_file) == IF input_file = InputPath THEN BakPath ELSE OtherPath

\* args.output if args.output else args.input_file
output_file == IF args.output # "" THEN args.output ELSE args.input_file

\* --------------------------------------------------------------- input files
\* "0xFF,0x00,..." : upper-case literals on one line, as an icon generator emits
UpperByte(b) == <<"0", "x", UpperHex[(b \div 16) + 1], UpperHex[(b % 16) + 1]>>

RawBody(bytes) == Join([k \in 1..Len(bytes) |-> UpperByte(bytes[k])], <<",">>)

Decl(name, body) ==
    <<"c", "o", "n", "s", "t", " ">> \o KwUint8 \o <<" ">> \o name
    \o <<"[", "]", " ", "=", " ", "{">> \o body \o <<"}", ";", "\n">>

Header == <<"/", "/", " ", "i", "c", "o", "n", "\n">>
Footer == <<"i", "n", "t", " ", "n", " ", "=", " ", "4", ";", "\n">>

OneDecl(bytes) == Header \o Decl(<<"i", "c", "o", "n", "_", "m", "a", "p">>, RawBody(bytes)) \o Footer

TwoDecls(bytes) ==
    Header \o Decl(<<"i", "c", "o", "n", "_", "m", "a", "p">>, RawBody(bytes))
    \o Footer \o Decl(<<"m", "a", "s", "k">>, RawBody(<<18, 52, 86, 120>>)) \o Footer

\* texts in which the pattern does not match
NoDeclFiles ==
    { Header \o Footer,
      Header \o KwUint8 \o <<" ", "a", "[", "]", " ", "=", " ", "{", "}", ";">>,
      Header \o KwUint8 \o <<" ", "a", "[", "4", "]", " ", "=", " ", "{", "0", "x", "0", "1", "}", ";">> }

FileByteCounts == {4 * w * h : w \in 1..MaxFileWidth, h \in 1..MaxFileHeight} \cup {3, 6}

FilePatterns == {<<250, 101>>, <<255, 0>>}

DeclFiles ==
    {OneDecl(Buffer(pat, n)) : pat \in FilePatterns, n \in FileByteCounts}
    \cup {TwoDecls(Buffer(pat, n)) : pat \in FilePatterns, n \in FileByteCounts}

InputFiles == NoDeclFiles \cup DeclFiles

\* ------------------------------------------------------------------------ main
MainRadius2 == {0, 3}
MainShadows == {<<1, 5>>, <<1, 1>>}

Init ==
    /\ args \in [input_file : {InputPath}, output : {"", InputPath, OtherPath},
                 width : 1..MaxFileWidth, height : 1..MaxFileHeight,
                 radius2 : MainRadius2, shadow : MainShadows, backup : BOOLEAN]
    /\ \E f \in InputFiles \cup {NoText} :
          fs = [p \in Paths |-> IF p = InputPath THEN f ELSE NoText]
    /\ pc = "start"
    /\ pixels = NoPixels
    /\ original_content = NoText
    /\ var_name = NoText
    /\ modified_pixels = NoPixels
    /\ new_content = NoText
    /\ second_content = NoText
    /\ writes = <<>>
    /\ error = ""
    /\ exit_status = -1

\* lines 164-166: os.path.exists
CheckInput ==
    /\ pc = "start"
    /\ IF fs[args.input_file] = NoText
       THEN /\ pc' = "exit"
            /\ error' = "not found"
            /\ exit_status' = 1
       ELSE /\ pc' = "parse"
            /\ UNCHANGED <<error, exit_status>>
    /\ UNCHANGED <<args, fs, pixels, original_content, var_name, modified_pixels,
                   new_content, second_content, writes>>

\* line 171, and the handler at 199-201 when it raises
ParseStep ==
    /\ pc = "parse"
    /\ LET r == parse_c_file(fs[args.input_file])
       IN IF r.err # ""
          THEN /\ pc' = "exit"
               /\ error' = r.err
               /\ exit_status' = 1
               /\ UNCHANGED <<pixels, original_content, var_name>>
          ELSE /\ pc' = "apply"
               /\ pixels' = r.pixels
               /\ original_content' = r.content
               /\ var_name' = r.var_name
               /\ UNCHANGED <<error, exit_status>>
    /\ UNCHANGED <<args, fs, modified_pixels, new_content, second_content, writes>>

ApplyStepMut ==
    /\ pc = "apply"
    /\ pc' = "format"
    /\ modified_pixels' = pixels
    /\ UNCHANGED <<args, fs, pixels, original_content, var_name, new_content,
                   second_content, writes, error, exit_status>>

\* lines 175-181, and the handler at 199-201 when it raises
ApplyStep ==
    /\ pc = "apply"
    /\ LET r == apply_modifications(pixels, args.width, args.height, args.radius2, args.shadow)
       IN IF r.err # ""
          THEN /\ pc' = "exit"
               /\ error' = r.err
               /\ exit_status' = 1
               /\ pixels' = r.arg
               /\ UNCHANGED modified_pixels
          ELSE /\ pc' = "format"
               /\ pixels' = r.arg
               /\ modified_pixels' = r.ret
               /\ UNCHANGED <<error, exit_status>>
    /\ UNCHANGED <<args, fs, original_content, var_name, new_content,
                   second_content, writes>>

\* line 184, and the handler at 199-201 when it raises
FormatStep ==
    /\ pc = "format"
    /\ LET r == format_output(modified_pixels, original_content, args.width)
       IN IF r.err # ""
          THEN /\ pc' = "exit"
               /\ error' = r.err
               /\ exit_status' = 1
               /\ UNCHANGED new_content
          ELSE /\ pc' = "backup"
               /\ new_content' = r.ret
               /\ UNCHANGED <<error, exit_status>>
    /\ UNCHANGED <<args, fs, pixels, original_content, var_name, modified_pixels,
                   second_content, writes>>

BackupStepMut ==
    /\ pc = "backup"
    /\ IF args.backup
       THEN /\ fs' = [fs EXCEPT ![bak_file(args.input_file)] = original_content]
            /\ writes' = Append(writes, bak_file(args.input_file))
       ELSE UNCHANGED <<fs, writes>>
    /\ pc' = "write"
    /\ UNCHANGED <<args, pixels, original_content, var_name, modified_pixels,
                   new_content, second_content, error, exit_status>>

\* lines 186-192; opening the backup for writing may fail (caught at 199-201)
BackupStep ==
    /\ pc = "backup"
    /\ IF args.backup /\ output_file = args.input_file
       THEN \/ /\ fs' = [fs EXCEPT ![bak_file(args.input_file)] = original_content]
               /\ writes' = Append(writes, bak_file(args.input_file))
               /\ pc' = "write"
               /\ UNCHANGED <<error, exit_status>>
            \/ /\ pc' = "exit"
               /\ error' = "OSError"
               /\ exit_status' = 1
               /\ UNCHANGED <<fs, writes>>
       ELSE /\ pc' = "write"
            /\ UNCHANGED <<fs, writes, error, exit_status>>
    /\ UNCHANGED <<args, pixels, original_content, var_name, modified_pixels,
                   new_content, second_content>>

\* lines 194-197; opening the output for writing may fail (caught at 199-201)
WriteStep ==
    /\ pc = "write"
    /\ \/ /\ fs' = [fs EXCEPT ![output_file] = new_content]
          /\ writes' = Append(writes, output_file)
          /\ pc' = "done"
          /\ exit_status' = 0
          /\ UNCHANGED error
       \/ /\ pc' = "exit"
          /\ error' = "OSError"
          /\ exit_status' = 1
          /\ UNCHANGED <<fs, writes>>
    /\ UNCHANGED <<args, pixels, original_content, var_name, modified_pixels,
                   new_content, second_content>>

Next == CheckInput \/ ParseStep \/ ApplyStep \/ FormatStep \/ BackupStep \/ WriteStep

Spec == Init /\ [][Next]_vars

\* ------------------------------------------- direct calls of apply_modifications
\* lengths tried for a width x height image: the right one and three wrong ones
CallLengths(width, height) ==
    {4 * width * height, 4 * width * height - 1, 4 * width * height + 4, 0}

InitPixels ==
    /\ args \in [input_file : {InputPath}, output : {""},
                 width : 1..MaxWidth, height : 1..MaxHeight,
                 radius2 : 0..MaxRadius2, shadow : Shadows, backup : {FALSE}]
    /\ \E pat \in Patterns : \E n \in CallLengths(args.width, args.height) :
          pixels = Buffer(pat, n)
    /\ fs = [p \in Paths |-> NoText]
    /\ pc = "call"
    /\ original_content = NoText
    /\ var_name = NoText
    /\ modified_pixels = NoPixels
    /\ new_content = NoText
    /\ second_content = NoText
    /\ writes = <<>>
    /\ error = ""
    /\ exit_status = -1

\* lines 91-128, called directly
CallApply ==
    /\ pc = "call"
    /\ LET r == apply_modifications(pixels, args.width, args.height, args.radius2, args.shadow)
       IN /\ pc' = IF r.err # "" THEN "raised" ELSE "returned"
          /\ error' = r.err
          /\ pixels' = r.arg
          /\ modified_pixels' = r.ret
    /\ UNCHANGED <<args, fs, original_content, var_name, new_content, second_content,
                   writes, exit_status>>

NextPixels == CallApply

SpecPixels == InitPixels /\ [][NextPixels]_vars

\* ------------------------------------------------- direct calls of format_output
MaxPixels == 4

InitFormat ==
    /\ args \in [input_file : {InputPath}, output : {""},
                 width : 1..MaxWidth, height : {1},
                 radius2 : {0}, shadow : {<<0, 1>>}, backup : {FALSE}]
    /\ \E pat \in Patterns : \E n \in 0..MaxPixels : modified_pixels = Buffer(pat, 4 * n)
    /\ original_content \in InputFiles
    /\ fs = [p \in Paths |-> NoText]
    /\ pc = "fmt"
    /\ pixels = NoPixels
    /\ var_name = NoText
    /\ new_content = NoText
    /\ second_content = NoText
    /\ writes = <<>>
    /\ error = ""
    /\ exit_status = -1

\* lines 130-159, called directly
FormatFirst ==
    /\ pc = "fmt"
    /\ new_content' = format_output(modified_pixels, original_content, args.width).ret
    /\ pc' = "fmt2"
    /\ UNCHANGED <<args, fs, pixels, original_content, var_name, modified_pixels,
                   second_content, writes, error, exit_status>>

\* the extractor (lines 39-51) and the serializer (130-159) run on that output
FormatAgain ==
    /\ pc = "fmt2"
    /\ pixels' = parse_c_file(new_content).pixels
    /\ var_name' = parse_c_file(new_content).var_name
    /\ second_content' = format_output(modified_pixels, new_content, args.width).ret
    /\ pc' = "fmt_done"
    /\ UNCHANGED <<args, fs, original_content, modified_pixels, new_content,
                   writes, error, exit_status>>

NextFormat == FormatFirst \/ FormatAgain

SpecFormat == InitFormat /\ [][NextFormat]_vars

\* ===================================================================== properties
Cols == 0..(args.width - 1)
Rows == 0..(args.height - 1)
InPx(x, y) == PixelAt(pixels, x, y, args.width)
OutPx(x, y) == PixelAt(modified_pixels, x, y, args.width)
CornerDist(x, y) == distance_to_corner(x, y, args.width, args.height, args.radius2)
Returned == pc = "returned"

\* the four corner bounding boxes and centres, k = 1..4 for top-left, top-right,
\* bottom-left, bottom-right (doubled coordinates)
BoxLeft(k) == k \in {1, 3}
BoxTop(k) == k \in {1, 2}
InBox(k, x, y) ==
    /\ IF BoxLeft(k) THEN 2 * x < args.radius2 ELSE 2 * x > 2 * args.width - args.radius2 - 2
    /\ IF BoxTop(k) THEN 2 * y < args.radius2 ELSE 2 * y > 2 * args.height - args.radius2 - 2
Centre(k) ==
    << IF BoxLeft(k) THEN args.radius2 ELSE 2 * args.width - args.radius2 - 2,
       IF BoxTop(k) THEN args.radius2 ELSE 2 * args.height - args.radius2 - 2 >>
CentreSq(k, x, y) ==
    (2 * x - Centre(k)[1]) * (2 * x - Centre(k)[1]) + (2 * y - Centre(k)[2]) * (2 * y - Centre(k)[2])
\* dist > radius - 1.5, dist <= radius, dist = radius
PastInner(k, x, y) ==
    args.radius2 < 3 \/ CentreSq(k, x, y) > (args.radius2 - 3) * (args.radius2 - 3)
InBand(k, x, y) == PastInner(k, x, y) /\ CentreSq(k, x, y) <= args.radius2 * args.radius2
OnRadius(k, x, y) == CentreSq(k, x, y) = args.radius2 * args.radius2
\* (dist - (radius - 1.5)) / 1.5 as a value
BandValue(k, x, y) == [sq |-> CentreSq(k, x, y), off |-> args.radius2 - 3]

\* sqrt(a) - sqrt(b) = c for integers a, b >= 0 and c
RootDiff(a, b, c) ==
    IF c = 0 THEN a = b
    ELSE IF c > 0 THEN a - b - c * c >= 0 /\ (a - b - c * c) * (a - b - c * c) = 4 * c * c * b
         ELSE b - a - c * c >= 0 /\ (b - a - c * c) * (b - a - c * c) = 4 * c * c * a
\* two returned values are the same number
SameValue(u, v) == RootDiff(u.sq, v.sq, u.off - v.off)

\* n = floor(a * (radius - dist) / 1.5) for the corner k
IsFadedAlpha(n, a, k, x, y) ==
    /\ n \in 0..a
    /\ FadeHolds(a, BandValue(k, x, y), n)
    /\ ~FadeHolds(a, BandValue(k, x, y), n + 1)

\* ------------------------------------------------------------------------- C2
\* C2: apply_modifications raises the dimension error exactly when the length
\* differs from width*height*4; when it raises it returns nothing and the
\* caller's sequence is what it was before the call.
C2_DimensionCheck ==
    pc \in {"raised", "returned"} =>
       /\ (pc = "raised") <=> (Len(pixels) # args.width * args.height * 4)
       /\ pc = "raised" => (error = "ValueError: pixel count" /\ modified_pixels = NoPixels)
       /\ pc = "returned" => (error = "" /\ Len(modified_pixels) = Len(pixels))
       /\ \E pat \in Patterns : pixels = Buffer(pat, Len(pixels))

C2_Witness ==
    /\ pc = "raised"
    /\ Len(pixels) = args.width * args.height * 4 + 4
    /\ modified_pixels = NoPixels

\* ------------------------------------------------------------------------- C5
\* C5 as stated: every pixel inside a corner box with radius - 1.5 < dist <=
\* radius gets (dist - (radius - 1.5)) / 1.5, strictly between 0 and 1, and
\* is alpha-faded, never clipped.
C5_Original ==
    Returned =>
       \A x \in Cols : \A y \in Rows : \A k \in 1..4 :
          (InBox(k, x, y) /\ InBand(k, x, y)) =>
             /\ SameValue(CornerDist(x, y), BandValue(k, x, y))
             /\ GT0(CornerDist(x, y))
             /\ ~GE1(CornerDist(x, y))
             /\ OutPx(x, y)[1] = InPx(x, y)[1]
             /\ OutPx(x, y)[2] = InPx(x, y)[2]
             /\ OutPx(x, y)[3] = InPx(x, y)[3]
             /\ IsFadedAlpha(OutPx(x, y)[4], InPx(x, y)[4], k, x, y)

\* no corner examined before k has the pixel in its box at dist > radius - 1.5
FirstDeciding(k, x, y) == \A j \in 1..(k - 1) : ~(InBox(j, x, y) /\ PastInner(j, x, y))

\* C5 amended: for a pixel inside a corner box with radius - 1.5 < dist <=
\* radius that no earlier corner (top-left, top-right, bottom-left,
\* bottom-right) already decided, distance_to_corner returns
\* (dist - (radius - 1.5)) / 1.5, which lies in (0, 1] and is 1.0 exactly when
\* dist = radius; the pixel is alpha-faded when dist < radius and fully
\* clipped when dist = radius.
C5_BandValue ==
    Returned =>
       \A x \in Cols : \A y \in Rows : \A k \in 1..4 :
          (InBox(k, x, y) /\ InBand(k, x, y) /\ FirstDeciding(k, x, y)) =>
             /\ SameValue(CornerDist(x, y), BandValue(k, x, y))
             /\ GT0(CornerDist(x, y))
             /\ GE1(CornerDist(x, y)) <=> OnRadius(k, x, y)
             /\ OnRadius(k, x, y) => OutPx(x, y) = <<0, 0, 0, 0>>
             /\ ~OnRadius(k, x, y) =>
                   /\ OutPx(x, y)[1] = InPx(x, y)[1]
                   /\ OutPx(x, y)[2] = InPx(x, y)[2]
                   /\ OutPx(x, y)[3] = InPx(x, y)[3]
                   /\ IsFadedAlpha(OutPx(x, y)[4], InPx(x, y)[4], k, x, y)

C5_Witness ==
    /\ Returned
    /\ \E x \in Cols : \E y \in Rows :
          /\ InBox(1, x, y) /\ OnRadius(1, x, y)
          /\ InPx(x, y)[1] > 0
          /\ OutPx(x, y) = <<0, 0, 0, 0>>
    /\ \E x \in Cols : \E y \in Rows : \E k \in 1..4 :
          /\ InBox(k, x, y) /\ InBand(k, x, y) /\ FirstDeciding(k, x, y)
          /\ ~OnRadius(k, x, y)
          /\ OutPx(x, y)[4] > 0
          /\ OutPx(x, y)[4] < InPx(x, y)[4]

\* ------------------------------------------------------------------------- C6
\* the row at 70% of the height, rounded down
StartRow == CHOOSE s \in 0..args.height : 10 * s <= 7 * args.height /\ 7 * args.height < 10 * (s + 1)
Factor(y) == get_shadow_factor(y, args.height, args.shadow)
\* factor = 1 - max_shadow * a / b
FactorIs(f, a, b) ==
    f.num * (args.shadow[2] * b) = f.den * (args.shadow[2] * b - args.shadow[1] * a)
FactorIsOne(f) == f.num = f.den

\* C6 as stated: 1.0 above the shadow start, exactly 1.0 at the start row,
\* exactly 1.0 - max_shadow at the last row, equal steps in between.
C6_Original ==
    Returned =>
       \A y \in Rows :
          /\ y < StartRow => FactorIsOne(Factor(y))
          /\ y = StartRow => FactorIsOne(Factor(y))
          /\ (y = args.height - 1 /\ y >= StartRow) => FactorIs(Factor(y), 1, 1)
          /\ (y > StartRow /\ y < args.height - 1) =>
                FactorIs(Factor(y), y - StartRow, args.height - 1 - StartRow)

\* C6 amended: 1.0 above the shadow start; from the start row on the factor is
\* 1 - max_shadow * (y - start) / (height - start): exactly 1.0 at the start
\* row and 1 - max_shadow * (height - 1 - start) / (height - start) at the last
\* row; every darkened colour byte is the input byte times that factor, truncated.
C6_LinearFactor ==
    Returned =>
       \A y \in Rows :
          /\ y < StartRow => FactorIsOne(Factor(y))
          /\ y = StartRow => FactorIsOne(Factor(y))
          /\ y >= StartRow => FactorIs(Factor(y), y - StartRow, args.height - StartRow)
          /\ \A x \in Cols : \A ch \in 1..3 :
                (~GT0(CornerDist(x, y)) /\ y >= StartRow) =>
                   LET n == OutPx(x, y)[ch]
                       c == InPx(x, y)[ch]
                       den == args.shadow[2] * (args.height - StartRow)
                       num == den - args.shadow[1] * (y - StartRow)
                   IN n * den <= c * num /\ c * num < (n + 1) * den

C6_Witness ==
    /\ Returned
    /\ args.shadow[1] > 0
    /\ args.height - 1 > StartRow
    /\ \E x \in Cols :
          /\ ~GT0(CornerDist(x, args.height - 1))
          /\ OutPx(x, args.height - 1)[1] < InPx(x, args.height - 1)[1]
          /\ ~FactorIs(Factor(args.height - 1), 1, 1)

\* ------------------------------------------------------------------------- C7
Fading(x, y) == GT0(CornerDist(x, y)) /\ ~GE1(CornerDist(x, y))
InShadow(y) == y >= StartRow /\ ~FactorIsOne(Factor(y))

\* C7: a pixel with 0 < corner-distance < 1 keeps its three colour bytes, also
\* in the shadow band, and gets alpha floor(a * (1 - d)) <= a; a pixel that is
\* darkened keeps its alpha.
C7_AlphaOnlyFade ==
    Returned =>
       \A x \in Cols : \A y \in Rows :
          /\ Fading(x, y) =>
                /\ \A ch \in 1..3 : OutPx(x, y)[ch] = InPx(x, y)[ch]
                /\ OutPx(x, y)[4] \in 0..InPx(x, y)[4]
                /\ FadeHolds(InPx(x, y)[4], CornerDist(x, y), OutPx(x, y)[4])
                /\ ~FadeHolds(InPx(x, y)[4], CornerDist(x, y), OutPx(x, y)[4] + 1)
          /\ (\E ch \in 1..3 : OutPx(x, y)[ch] # InPx(x, y)[ch]) =>
                (~Fading(x, y) /\ (OutPx(x, y)[4] = InPx(x, y)[4] \/ GE1(CornerDist(x, y))))

C7_Witness ==
    /\ Returned
    /\ \E x \in Cols : \E y \in Rows :
          /\ Fading(x, y)
          /\ InShadow(y)
          /\ Darken(InPx(x, y)[1], Factor(y)) < InPx(x, y)[1]
          /\ OutPx(x, y)[1] = InPx(x, y)[1]
          /\ OutPx(x, y)[4] < InPx(x, y)[4]

\* ------------------------------------------------------------------------- C8
\* C8: every output byte is in 0..255 and at most the input byte at its index.
C8_NoByteGrows ==
    Returned =>
       \A i \in 1..Len(pixels) :
          /\ modified_pixels[i] \in 0..255
          /\ modified_pixels[i] <= pixels[i]

C8_Witness ==
    /\ Returned
    /\ \E x \in Cols : \E y \in Rows :
          /\ ~GT0(CornerDist(x, y))
          /\ OutPx(x, y)[1] < InPx(x, y)[1]
          /\ OutPx(x, y)[1] > 0
    /\ \E x \in Cols : \E y \in Rows :
          GE1(CornerDist(x, y)) /\ InPx(x, y)[4] > 0 /\ OutPx(x, y)[4] = 0

\* ------------------------------------------------------------------------- C9
\* C9: in one column, for rows y1 < y2 at or past the shadow start, both with
\* corner-distance 0 and the same input byte in a colour channel, the output
\* byte at y2 is at most the one at y1, and alpha is unchanged at both.
C9_ShadowMonotonic ==
    Returned =>
       \A x \in Cols : \A y1 \in Rows : \A y2 \in Rows :
          (/\ y1 < y2
           /\ y1 >= StartRow
           /\ ~GT0(CornerDist(x, y1))
           /\ ~GT0(CornerDist(x, y2))) =>
             /\ \A ch \in 1..3 :
                   InPx(x, y1)[ch] = InPx(x, y2)[ch] => OutPx(x, y2)[ch] <= OutPx(x, y1)[ch]
             /\ OutPx(x, y1)[4] = InPx(x, y1)[4]
             /\ OutPx(x, y2)[4] = InPx(x, y2)[4]

C9_Witness ==
    /\ Returned
    /\ \E x \in Cols : \E y1 \in Rows : \E y2 \in Rows :
          /\ y1 < y2
          /\ y1 >= StartRow
          /\ ~GT0(CornerDist(x, y1))
          /\ ~GT0(CornerDist(x, y2))
          /\ InPx(x, y1)[1] = InPx(x, y2)[1]
          /\ OutPx(x, y2)[1] < OutPx(x, y1)[1]

\* ------------------------------------------------------------------------- C1
\* every non-overlapping match of the declaration pattern, left to right
RECURSIVE Matches(_, _)
Matches(text, pos) ==
    LET m == Search(text, pos)
    IN IF m.ok THEN <<m>> \o Matches(text, m.close + 1) ELSE <<>>

BodyOf(text, m) == SubSeq(text, m.open + 1, m.close - 1)

ExtractionFailed ==
    /\ pc \notin {"start", "parse"}
    /\ fs[args.input_file] # NoText
    /\ Matches(fs[args.input_file], 1) = <<>>

DimensionRejected ==
    /\ pc \notin {"start", "parse", "apply"}
    /\ pixels # NoPixels
    /\ Len(pixels) # args.width * args.height * 4

NothingWritten ==
    /\ writes = <<>>
    /\ fs[BakPath] = NoText
    /\ fs[OtherPath] = NoText

ComputationDone ==
    /\ original_content # NoText
    /\ pixels = parse_c_file(original_content).pixels
    /\ Len(pixels) = args.width * args.height * 4
    /\ Len(modified_pixels) = Len(pixels)
    /\ new_content # NoText
    /\ new_content = format_output(modified_pixels, original_content, args.width).ret

\* C1: a run in which extraction fails or the byte count is rejected writes no
\* file and ends with exit status 1; any file is written only after parsing,
\* transforming and formatting have all succeeded.
C1_NoPartialWrite ==
    /\ (ExtractionFailed \/ DimensionRejected) =>
          (pc = "exit" /\ exit_status = 1 /\ NothingWritten)
    /\ ~NothingWritten => ComputationDone
    /\ pc = "done" => (ComputationDone /\ exit_status = 0 /\ fs[output_file] = new_content)

C1_Witness ==
    /\ pc = "exit"
    /\ DimensionRejected
    /\ args.backup
    /\ output_file = args.input_file
    /\ NothingWritten
    /\ exit_status = 1

\* ------------------------------------------------------------------------- C4
BackupWritten == fs[BakPath] # NoText

Formatted == pc \in {"fmt2", "fmt_done"}

\* C3 as stated: with two or more matching declarations, only the first gets
\* the new body; later bodies and all text outside the first declaration's
\* braces are as in the original.
C3_OnlyFirstReplaced ==
    (Formatted /\ Len(Matches(original_content, 1)) >= 2) =>
       LET old == Matches(original_content, 1)
           new == Matches(new_content, 1)
       IN /\ Len(new) = Len(old)
          /\ BodyOf(new_content, new[1])
                = <<"\n">> \o array_content(modified_pixels, args.width) \o <<"\n">>
          /\ \A k \in 2..Len(old) : BodyOf(new_content, new[k]) = BodyOf(original_content, old[k])
          /\ SubSeq(new_content, 1, new[1].open) = SubSeq(original_content, 1, old[1].open)
          /\ SubSeq(new_content, new[1].close, Len(new_content))
                = SubSeq(original_content, old[1].close, Len(original_content))

\* ------------------------------------------------------------------------ C10
NumPixels == Len(modified_pixels) \div 4
NumLines == (NumPixels + args.width - 1) \div args.width
NewBody == BodyOf(new_content, Matches(new_content, 1)[1])
NewLines(text) == Cardinality({i \in 1..Len(text) : text[i] = "\n"})

\* C10: with exactly one matching declaration in T, the bytes read back from
\* T1 = format_output(P, T, width) are P, and format_output(P, T1, width) is T1;
\* the body has one line per width pixels, each indented by two spaces and
\* ending in a comma, in lowercase hex.
C10_RoundTrip ==
    (pc = "fmt_done" /\ Len(Matches(original_content, 1)) = 1) =>
       /\ Len(Matches(new_content, 1)) = 1
       /\ pixels = modified_pixels
       /\ second_content = new_content
       /\ LET body == NewBody
          IN /\ body = <<"\n">> \o array_content(modified_pixels, args.width) \o <<"\n">>
             /\ NewLines(body) = (IF NumLines = 0 THEN 1 ELSE NumLines) + 1
             /\ \A i \in 1..Len(body) :
                   /\ body[i] \notin {UpperHex[k] : k \in 11..16}
                   /\ (body[i] = "\n" /\ i < Len(body) /\ NumPixels > 0) =>
                         (body[i + 1] = " " /\ body[i + 2] = " " /\ body[i + 3] = "0")
                   /\ (body[i] = "\n" /\ i > 1 /\ NumPixels > 0) => body[i - 1] = ","

C10_Witness ==
    /\ pc = "fmt_done"
    /\ Len(Matches(original_content, 1)) = 1
    /\ NumPixels > args.width
    /\ NumPixels % args.width # 0
    /\ \E i \in 1..Len(modified_pixels) : modified_pixels[i] % 16 > 9
    /\ pixels = modified_pixels
    /\ new_content # original_content
    /\ second_content = new_content

====
